---- MODULE Spec2Model ----
(***************************************************************************)
(* A model of pymks.mksRegressionModel.MKSRegressionModel: the binning of  *)
(* a microstructure, the Fourier transform over the spatial axes, the      *)
(* per-frequency least-squares fit and the prediction.                     *)
(*                                                                         *)
(* Numbers are IEEE double-precision values.  With u = 2^-54, a value is   *)
(* written <<k, c, r>> for the number u^k * (c + r * u): c is a rational   *)
(* <<n, d>> in lowest terms, the value the arithmetic of the reals would   *)
(* give, and r is the rational that the roundings have added, in units of  *)
(* u.  Zero has k, c and r all 0, and NaN has the denominator 0.  Since u   *)
(* is a power of two, the doubles near u^k * c are the numbers             *)
(* u^k * (c + r * u) with r on a grid that the binade of c fixes, and      *)
(* Round finds the nearest one, ties to even: sums, differences, products  *)
(* and quotients are correctly rounded, and a difference that cancels      *)
(* leaves the rounding errors of its operands, as in 1 - 1/3 - 2/3.        *)
(* Overflow and underflow do not occur at the sizes of the values          *)
(* modelled.                                                               *)
(*                                                                         *)
(* Axis lengths are 1 or 2, for which every twiddle factor of the discrete *)
(* Fourier transform is +1 or -1 and the transform is a butterfly of sums  *)
(* and differences, so that every transform of a real array is real.  An   *)
(* array is a record [shape, at]: shape is the tuple of axis lengths and   *)
(* at maps every 0-based index tuple to a value.                           *)
(*                                                                         *)
(* np.linalg.lstsq is a library routine whose internal roundings are not   *)
(* modelled: Lstsq gives the least-squares solution of least norm of the   *)
(* system of doubles it is handed, to its leading order in u, with the     *)
(* singular values compared exactly against the cut-off.                   *)
(***************************************************************************)
EXTENDS Integers, Sequences, FiniteSets, TLC

\* ------------------------------------------------------------- bounds
\* The value grid: array entries are drawn from np.linspace(0, 1, GridDen + 1).
GridDen == 4
\* The largest number of bins a model is constructed with.
MaxNbin == 3
\* The largest number of bins, and the largest denominator of a value,
\* that _bin is called with on its own.
MaxBins == 5
BinGridDen == 6

\* A function as it is, with its values computed once, when it is built,
\* instead of at every later read: the comparison makes them be computed.
Table(f) == IF f = f THEN f ELSE f

\* The sequence <<f[1], ..., f[n]>>, each entry computed once.
RECURSIVE Tuple(_, _)
Tuple(f, n) == IF n = 0 THEN <<>> ELSE Append(Tuple(f, n - 1), f[n])

\* --------------------------------------------------- exact rationals
Abs(n) == IF n < 0 THEN -n ELSE n

RECURSIVE Gcd(_, _)
Gcd(a, b) == IF b = 0 THEN a ELSE Gcd(b, a % b)

\* The rational n/d (d # 0) in lowest terms with a positive denominator.
Rat(n, d) ==
    LET Over(g) == IF d < 0 THEN <<(-n) \div g, (-d) \div g>>
                   ELSE <<n \div g, d \div g>>
    IN  Over(Gcd(Abs(n), Abs(d)))

\* The sums and products are formed over common factors, which keeps the
\* integers small.
QAdd(a, b) == LET Over(g) == Rat(a[1] * (b[2] \div g) + b[1] * (a[2] \div g),
                                 (a[2] \div g) * b[2])
              IN  Over(Gcd(a[2], b[2]))
QNeg(a) == <<-a[1], a[2]>>
QSub(a, b) == QAdd(a, QNeg(b))
QMul(a, b) == LET Over(g, h) == <<(a[1] \div g) * (b[1] \div h),
                                   (a[2] \div h) * (b[2] \div g)>>
              IN  IF a[1] = 0 \/ b[1] = 0 THEN <<0, 1>>
                  ELSE Over(Gcd(Abs(a[1]), b[2]), Gcd(Abs(b[1]), a[2]))
\* a / b for b # 0.
QDiv(a, b) == QMul(a, IF b[1] < 0 THEN <<-b[2], -b[1]>> ELSE <<b[2], b[1]>>)
QSgn(a) == IF a[1] > 0 THEN 1 ELSE IF a[1] < 0 THEN -1 ELSE 0
QLess(a, b) == a[1] * b[2] < b[1] * a[2]
\* The largest integer that is at most a.
QFloor(a) == a[1] \div a[2]

\* floor(log2(n / d)) for integers n > 0 and d > 0.
RECURSIVE Floor2(_, _)
Floor2(n, d) == IF n >= 2 * d THEN Floor2(n, 2 * d) + 1
                ELSE IF n < d THEN Floor2(2 * n, d) - 1
                ELSE 0

\* The rational 2^e, for any integer e.
Pow2(e) == IF e >= 0 THEN <<2 ^ e, 1>> ELSE <<1, 2 ^ (-e)>>

\* d is a power of two, for an integer d > 0.
RECURSIVE IsPow2(_)
IsPow2(d) == d = 1 \/ (d % 2 = 0 /\ IsPow2(d \div 2))

\* 2^e modulo M, for e >= 0.
RECURSIVE Pow2Mod(_, _)
Pow2Mod(e, M) == IF e = 0 THEN 1 % M
                 ELSE IF e % 2 = 1 \/ M > 32768 THEN (2 * Pow2Mod(e - 1, M)) % M
                 ELSE LET h == Pow2Mod(e \div 2, M) IN (h * h) % M

\* ------------------------------------------------- double precision
NaN == <<0, <<0, 0>>, <<0, 0>>>>
IsNaN(a) == a[2][2] = 0
Zero == <<0, <<0, 1>>, <<0, 1>>>>
One == <<0, <<1, 1>>, <<0, 1>>>>
MinusOne == <<0, <<-1, 1>>, <<0, 1>>>>

\* The double nearest to u^k * (c + r * u + s * (something positive and far
\* smaller than u)), for c # 0 and s in {-1, 0, 1}; a tie goes to the even
\* significand.  With e the binary exponent of the number, its neighbours
\* are 2^(e - 52) apart, which is m = 2^(e + 2) in units of u; N = |c| *
\* 2^(52 - e) + r / m counts these steps, and only its value modulo 2 is
\* needed: rho below is N less an even integer.  The stages hand on what
\* they have computed: the magnitude ac of c with the residue rr and the
\* sign ss taken along, the exponent e, the step m, the count rho, its floor
\* lo and fraction, the nearest integer, and the residue that is left.
Round(k, c, r, s) ==
    LET sg == QSgn(c)
        Signed(r2) == <<k, c, <<sg * r2[1], r2[2]>>>>
        Residue(rr, m, rho, near) ==
            Signed(QAdd(rr, QMul(QSub(<<near, 1>>, rho), m)))
        Nearest(rr, ss, m, rho, lo, frac) ==
            Residue(rr, m, rho,
                    IF (IF frac = <<1, 2>>
                        THEN (IF ss # 0 THEN ss > 0 ELSE lo % 2 = 1)
                        ELSE QLess(<<1, 2>>, frac))
                    THEN lo + 1 ELSE lo)
        Fraction(rr, ss, m, rho, lo) ==
            Nearest(rr, ss, m, rho, lo, QSub(rho, <<lo, 1>>))
        Count(rr, ss, m, rho) == Fraction(rr, ss, m, rho, QFloor(rho))
        Steps(ac, rr, ss, e, m) ==
            Count(rr, ss, m,
                  QAdd(Rat((ac[1] * Pow2Mod(52 - e, 2 * ac[2])) % (2 * ac[2]),
                           ac[2]),
                       QDiv(rr, m)))
        Binade(ac, rr, ss, e) == Steps(ac, rr, ss, e, Pow2(e + 2))
        Exponent(ac, rr, ss, e0) ==
            Binade(ac, rr, ss,
                   IF ac = Pow2(e0) /\ (rr[1] < 0 \/ (rr[1] = 0 /\ ss < 0))
                   THEN e0 - 1 ELSE e0)
        Magnitude(ac, rr, ss) == Exponent(ac, rr, ss, Floor2(ac[1], ac[2]))
    IN  IF r[1] = 0 /\ s = 0 /\ IsPow2(c[2]) THEN <<k, c, r>>
        ELSE Magnitude(<<Abs(c[1]), c[2]>>, <<sg * r[1], r[2]>>, sg * s)

\* The double nearest to the rational n/d.
Float(n, d) == IF n = 0 THEN Zero ELSE Round(0, Rat(n, d), <<0, 1>>, 0)

\* a + b for finite a and b, neither of them zero, a of the larger order:
\* the sum's leading part c, the part r of the next order, and the sign s
\* of what lies beyond; a sum that cancels keeps its next order.
AddOrdered(a, b) ==
    LET Rounded(c, r, s) ==
            IF c[1] # 0 THEN Round(a[1], c, r, s)
            ELSE IF r[1] # 0 THEN <<a[1] + 1, r, <<0, 1>>>>
            ELSE Zero
    IN  Rounded(IF a[1] = b[1] THEN QAdd(a[2], b[2]) ELSE a[2],
                IF b[1] > a[1] + 1 THEN a[3]
                ELSE QAdd(a[3], IF a[1] = b[1] THEN b[3] ELSE b[2]),
                IF a[1] = b[1] THEN 0
                ELSE QSgn(IF b[1] = a[1] + 1 THEN b[3] ELSE b[2]))

\* IEEE arithmetic on the values: a NaN operand gives NaN.
RAdd(a, b) == IF IsNaN(a) \/ IsNaN(b) THEN NaN
              ELSE IF a = Zero THEN b
              ELSE IF b = Zero THEN a
              ELSE AddOrdered(IF a[1] <= b[1] THEN a ELSE b,
                              IF a[1] <= b[1] THEN b ELSE a)
RNeg(a) == IF IsNaN(a) THEN NaN ELSE <<a[1], QNeg(a[2]), QNeg(a[3])>>
RSub(a, b) == RAdd(a, RNeg(b))
RMul(a, b) == IF IsNaN(a) \/ IsNaN(b) THEN NaN
              ELSE IF a = Zero \/ b = Zero THEN Zero
              ELSE IF b = One THEN a
              ELSE IF b = MinusOne THEN <<a[1], QNeg(a[2]), QNeg(a[3])>>
              ELSE Round(a[1] + b[1], QMul(a[2], b[2]),
                         QAdd(QMul(a[2], b[3]), QMul(b[2], a[3])),
                         QSgn(a[3]) * QSgn(b[3]))
\* a / b for b # 0: the quotient is c + r * u - (r * rb / cb) * u^2 + ...
RDiv(a, b) == IF IsNaN(a) \/ IsNaN(b) THEN NaN
              ELSE IF a = Zero THEN Zero
              ELSE LET Rounded(r) ==
                           Round(a[1] - b[1], QDiv(a[2], b[2]), r,
                                 -(QSgn(r) * QSgn(b[3]) * QSgn(b[2])))
                   IN  Rounded(QDiv(QSub(QMul(a[3], b[2]), QMul(a[2], b[3])),
                                    QMul(b[2], b[2])))
\* The sign of a finite value.
RSgn(a) == QSgn(a[2])
RAbs(a) == IF IsNaN(a) THEN NaN
           ELSE IF RSgn(a) < 0 THEN <<a[1], QNeg(a[2]), QNeg(a[3])>> ELSE a
\* a < b for finite values: a correctly rounded difference has the sign of
\* the exact one.
RLess(a, b) == RSgn(RSub(a, b)) < 0
\* np.maximum: the larger operand, NaN when either is NaN.
RMaximum(a, b) == IF IsNaN(a) \/ IsNaN(b) THEN NaN
                  ELSE IF RLess(a, b) THEN b ELSE a

\* The sum of f[i] over the 0-based range 0..n-1, left to right.
RECURSIVE RSum(_, _)
RSum(f, n) == IF n = 0 THEN Zero ELSE RAdd(RSum(f, n - 1), f[n - 1])

\* ------------------------------------------------------------- arrays
\* np.ndindex(s) as a set: the Cartesian product of the ranges 0..s[i]-1.
RECURSIVE NdIndexSet(_)
NdIndexSet(s) ==
    IF Len(s) = 0 THEN {<<>>}
    ELSE {<<i>> \o r : i \in 0..(s[1] - 1), r \in NdIndexSet(Tail(s))}

\* np.ndindex(s) as the sequence the loop walks: C order, last axis fastest.
RECURSIVE NdIndex(_)
NdIndex(s) ==
    IF Len(s) = 0 THEN << <<>> >>
    ELSE LET rest == NdIndex(Tail(s))
             n == Len(rest)
         IN  [p \in 1..(s[1] * n) |->
                 << (p - 1) \div n >> \o rest[((p - 1) % n) + 1]]

\* The array of shape s with the entries f.
Array(s, f) == [shape |-> s, at |-> Table(f)]

\* len(X.shape)
Ndim(X) == Len(X.shape)
\* X.shape[1:]
SpatialShape(X) == IF Ndim(X) = 0 THEN <<>> ELSE Tail(X.shape)

\* ------------------------------------------------------------ binning
\* np.linspace(0, 1, n), 0-based: [0.] when n = 1, and otherwise
\* arange(n) * step with step = 1. / (n - 1) and the last point set to 1.
Linspace(n) ==
    Table([h \in 0..(n - 1) |->
              IF n = 1 THEN Zero
              ELSE IF h = n - 1 THEN One
              ELSE RMul(Float(h, 1), RDiv(One, Float(n - 1, 1)))])

\* _bin raises IndexError at H[1] when there are fewer than two bins.
BinRaises(nbin) == nbin < 2

\* A variant of BinValue without the clamp at 0.
BinValueUnclamped(v, nbin) ==
    LET Spaced(H, dh) ==
            Table([h \in 0..(nbin - 1) |->
                      RSub(One, RDiv(RAbs(RSub(v, H[h])), dh))])
        Over(H) == Spaced(H, RSub(H[1], H[0]))
    IN  Over(Linspace(nbin))

\* _bin on one value v: np.maximum(1 - abs(v - H) / dh, 0), 0-based over bins.
BinValue(v, nbin) ==
    LET Spaced(H, dh) ==
            Table([h \in 0..(nbin - 1) |->
                      RMaximum(RSub(One, RDiv(RAbs(RSub(v, H[h])), dh)), Zero)])
        Over(H) == Spaced(H, RSub(H[1], H[0]))
    IN  Over(Linspace(nbin))

\* _bin on an array: X[..., None] broadcast against H, a trailing bin axis.
Bin(X, nbin) ==
    LET s == X.shape \o <<nbin>>
        k == Len(X.shape)
        m == Table([ix \in NdIndexSet(X.shape) |-> BinValue(X.at[ix], nbin)])
    IN  Array(s, [ix \in NdIndexSet(s) |-> m[SubSeq(ix, 1, k)][ix[k + 1]]])

\* -------------------------------------------------- Fourier transform
\* _axes: np.arange(len(X.shape) - 1) + 1, the 0-based spatial axes.
Axes(X) == [i \in 1..(Ndim(X) - 1) |-> i]

\* exp(-2 pi i j k / n) for an axis of length n <= 2: +1 or -1.
Twiddle(j, k) == IF (j * k) % 2 = 0 THEN One ELSE MinusOne

\* The discrete Fourier transform along the 0-based axis ax.
Fft1(A, ax) ==
    LET n == A.shape[ax + 1]
    IN  Array(A.shape, [ix \in NdIndexSet(A.shape) |->
            RSum([j \in 0..(n - 1) |->
                     RMul(A.at[[ix EXCEPT ![ax + 1] = j]],
                          Twiddle(j, ix[ax + 1]))], n)])

\* np.fft.fftn(A, axes): the transform along each of the axes in turn.
RECURSIVE Fftn(_, _)
Fftn(A, axes) ==
    IF Len(axes) = 0 THEN A
    ELSE Fftn(Fft1(A, axes[Len(axes)]), SubSeq(axes, 1, Len(axes) - 1))

\* A variant of IFft1 without the division by the length of the axis.
IFft1Unscaled(A, ax) ==
    LET n == A.shape[ax + 1]
    IN  Array(A.shape, [ix \in NdIndexSet(A.shape) |->
            RSum([j \in 0..(n - 1) |->
                     RMul(A.at[[ix EXCEPT ![ax + 1] = j]],
                          Twiddle(j, ix[ax + 1]))], n)])

\* The inverse transform along the axis ax: the conjugate twiddles, over n.
IFft1(A, ax) ==
    LET n == A.shape[ax + 1]
    IN  Array(A.shape, [ix \in NdIndexSet(A.shape) |->
            RDiv(RSum([j \in 0..(n - 1) |->
                          RMul(A.at[[ix EXCEPT ![ax + 1] = j]],
                               Twiddle(j, ix[ax + 1]))], n),
                 Float(n, 1))])

\* np.fft.ifftn(A, axes).real
RECURSIVE IFftn(_, _)
IFftn(A, axes) ==
    IF Len(axes) = 0 THEN A
    ELSE IFftn(IFft1(A, axes[Len(axes)]), SubSeq(axes, 1, Len(axes) - 1))

\* _binfft: bin every sample, then transform over the spatial axes of X.
BinFft(X, nbin) == Fftn(Bin(X, nbin), Axes(X))

\* ------------------------------------------------------ least squares
\* FX[sl + ijk + sl]: the samples-by-bins matrix of one frequency.
SliceFX(FX, ijk) ==
    [s \in 0..(FX.shape[1] - 1) |->
        [h \in 0..(FX.shape[Len(FX.shape)] - 1) |->
            FX.at[<<s>> \o ijk \o <<h>>]]]

\* Fy[sl + ijk]: the right-hand side of one frequency, one entry a sample.
SliceFy(Fy, ijk) == [s \in 0..(Fy.shape[1] - 1) |-> Fy.at[<<s>> \o ijk]]

\* np.linalg.lstsq raises LinAlgError (the SVD does not converge) when the
\* matrix or the right-hand side holds a NaN.
LstsqRaises(A, b, m, n) ==
    \E s \in 0..(m - 1) : IsNaN(b[s]) \/ \E h \in 0..(n - 1) : IsNaN(A[s][h])

\* A polynomial in u is the sequence of its rational coefficients, p[i]
\* that of u^(i - 1); the empty sequence is the zero polynomial.
PCoef(p, i) == IF i >= 1 /\ i <= Len(p) THEN p[i] ELSE <<0, 1>>

RECURSIVE QSum(_, _)
QSum(f, n) == IF n = 0 THEN <<0, 1>> ELSE QAdd(QSum(f, n - 1), f[n])

PAdd(p, q) ==
    LET n == IF Len(p) > Len(q) THEN Len(p) ELSE Len(q)
    IN  Tuple([i \in 1..n |-> QAdd(PCoef(p, i), PCoef(q, i))], n)
PNeg(p) == Tuple([i \in 1..Len(p) |-> QNeg(p[i])], Len(p))
PSub(p, q) == PAdd(p, PNeg(q))
PMul(p, q) ==
    IF Len(p) = 0 \/ Len(q) = 0 THEN <<>>
    ELSE Tuple([i \in 1..(Len(p) + Len(q) - 1) |->
                   QSum([j \in 1..Len(p) |-> QMul(p[j], PCoef(q, i - j + 1))],
                        Len(p))],
               Len(p) + Len(q) - 1)

\* The sum of the polynomials f[i] over the 0-based range 0..n-1.
RECURSIVE PSum(_, _)
PSum(f, n) == IF n = 0 THEN <<>> ELSE PAdd(PSum(f, n - 1), f[n - 1])

\* The index of the first coefficient that is not zero; 0 for the zero
\* polynomial.
RECURSIVE POrdFrom(_, _)
POrdFrom(p, i) == IF i > Len(p) THEN 0
                  ELSE IF p[i][1] # 0 THEN i ELSE POrdFrom(p, i + 1)
POrd(p) == POrdFrom(p, 1)

\* The finite value a as a polynomial in u, times u^(-kmin).
Poly(a, kmin) ==
    IF a = Zero THEN <<>>
    ELSE LET n == IF a[3][1] = 0 THEN a[1] - kmin + 1 ELSE a[1] - kmin + 2
         IN  Tuple([i \in 1..n |->
                       IF i = a[1] - kmin + 1 THEN a[2]
                       ELSE IF i = a[1] - kmin + 2 THEN a[3]
                       ELSE <<0, 1>>], n)

\* The double nearest to the leading term of the quotient num / den of two
\* polynomials, den # 0.
Leading(num, den) ==
    LET At(i, j) == Round(i - j, QDiv(num[i], den[j]), <<0, 1>>, 0)
    IN  IF POrd(num) = 0 THEN Zero ELSE At(POrd(num), POrd(den))

\* The smallest order among the values of A and b that are not zero.
MinOrder(A, b, m, n) ==
    LET Least(ks) == IF ks = {} THEN 0 ELSE CHOOSE k \in ks : \A j \in ks : k <= j
    IN  Least({b[s][1] : s \in {t \in 0..(m - 1) : b[t] # Zero}}
              \cup UNION {{A[s][h][1] :
                              h \in {g \in 0..(n - 1) : A[s][g] # Zero}} :
                          s \in 0..(m - 1)})

\* The Gram matrix A A^T of the rows of A, its entries polynomials.
Gram(P, m, n) ==
    Table([s \in 0..(m - 1) |-> [r \in 0..(m - 1) |->
              PSum([h \in 0..(n - 1) |-> PMul(P[s][h], P[r][h])], n)]])

\* The second singular value of a matrix of two rows is cut off when it is
\* at most rcond times the first.  lstsq is called without rcond, which
\* stands for the machine precision 2^-53 = 2 u; with det and tr the
\* determinant and the trace of the Gram matrix, both polynomials in u and
\* tr # 0, and the ratio of the squared singular values det / tr^2 (up to
\* its own square), the cut is at det / tr^2 <= 4 u^2.
CutOff(det, tr) ==
    LET Ratio(tr2, i, j) ==
            \/ i - j > 2
            \/ i - j = 2 /\ ~QLess(<<4, 1>>, QDiv(det[i], tr2[j]))
        Squared(tr2) == Ratio(tr2, POrd(det), POrd(tr2))
    IN  POrd(det) = 0 \/ Squared(PMul(tr, tr))

\* np.linalg.lstsq(A, b)[0] for a finite m x n matrix with m <= 2: the
\* least-squares solution of least norm, c = A^T (A A^T)^+ b, with the
\* pseudo-inverse of the Gram matrix G of full rank its inverse
\* adj(G) / det, and of rank 1 (after the cut-off) G / tr(G)^2; a matrix of
\* zeros gives zeros.  Each stage hands on what it has computed: the
\* smallest order kmin, the matrix P and the right-hand side q as
\* polynomials, G, its determinant and trace, the cut, the pseudo-inverse as
\* M / den, and w = M q.
Lstsq(A, b, m, n) ==
    LET Apply(P, w, den) ==
            [h \in 0..(n - 1) |->
                Leading(PSum([s \in 0..(m - 1) |-> PMul(P[s][h], w[s])], m),
                        den)]
        Times(P, q, M, den) ==
            Apply(P, Table([s \in 0..(m - 1) |->
                              PSum([r \in 0..(m - 1) |-> PMul(M[s][r], q[r])],
                                   m)]), den)
        Pseudo(P, q, G, det, tr, cut) ==
            Times(P, q,
                  IF cut THEN G
                  ELSE Table([s \in 0..(m - 1) |-> [r \in 0..(m - 1) |->
                           IF s # r THEN PNeg(G[s][r])
                           ELSE IF m = 1 THEN << <<1, 1>> >>
                           ELSE G[1 - s][1 - s]]]),
                  IF cut THEN PMul(tr, tr) ELSE det)
        Ranked(P, q, G, det, tr) == Pseudo(P, q, G, det, tr, CutOff(det, tr))
        Normal(P, q, G) ==
            Ranked(P, q, G,
                   IF m = 1 THEN G[0][0]
                   ELSE PSub(PMul(G[0][0], G[1][1]), PMul(G[0][1], G[1][0])),
                   PSum([s \in 0..(m - 1) |-> G[s][s]], m))
        System(P, q) == Normal(P, q, Gram(P, m, n))
        Scaled(kmin) ==
            System(Table([s \in 0..(m - 1) |->
                             [h \in 0..(n - 1) |-> Poly(A[s][h], kmin)]]),
                   Table([s \in 0..(m - 1) |-> Poly(b[s], kmin)]))
    IN  Scaled(MinOrder(A, b, m, n))

\* -------------------------------------------------------------- state
\* self: the attributes of the model instance, a record holding Nbin and,
\*   once a fit has stored it, Fcoeff.
\* call: the last call, [op, X, y] of a fit or [op, X] of a predict.
\* outcome: what the last call did, [err] with the exception it raised
\*   ("None" when it returned) and, for a predict that returned, [err, ret].
VARIABLES self, call, outcome
vars == <<self, call, outcome>>

HasFcoeff(obj) == "Fcoeff" \in DOMAIN obj

\* ---------------------------------------------------------------- fit
\* np.zeros(s + (nbin,))
Zeros(s) == Array(s, [ix \in NdIndexSet(s) |-> Zero])

\* A variant of SetRow that writes c at every coordinate (Fcoeff[...] = c).
SetRowEverywhere(F, ijk, c) ==
    LET k == Len(ijk)
    IN  Array(F.shape, [ix \in NdIndexSet(F.shape) |-> c[ix[k + 1]]])

\* Fcoeff[ijk + sl] = c: the bins of the coordinate ijk are overwritten.
SetRow(F, ijk, c) ==
    LET k == Len(ijk)
    IN  Array(F.shape, [ix \in NdIndexSet(F.shape) |->
            IF SubSeq(ix, 1, k) = ijk THEN c[ix[k + 1]] ELSE F.at[ix]])

\* The loop of fit over order[p..]: each coordinate is solved from its own
\* slices and stored; the first solve that raises ends the loop and leaves
\* what was stored so far.
RECURSIVE FitLoop(_, _, _, _, _)
FitLoop(F, FX, Fy, order, p) ==
    IF p > Len(order) THEN [F |-> F, err |-> "None"]
    ELSE LET ijk == order[p]
             A == SliceFX(FX, ijk)
             b == SliceFy(Fy, ijk)
             m == FX.shape[1]
             n == FX.shape[Len(FX.shape)]
         IN  IF LstsqRaises(A, b, m, n) THEN [F |-> F, err |-> "LinAlgError"]
             ELSE FitLoop(SetRow(F, ijk, Lstsq(A, b, m, n)), FX, Fy, order, p + 1)

\* A variant of StoreFcoeff that keeps an Fcoeff already stored.
StoreFcoeffOnce(obj, F) ==
    IF HasFcoeff(obj) THEN obj
    ELSE [a \in DOMAIN obj \cup {"Fcoeff"} |-> IF a = "Fcoeff" THEN F ELSE obj[a]]

\* The attribute assignment self.Fcoeff = F.
StoreFcoeff(obj, F) == [a \in DOMAIN obj \cup {"Fcoeff"} |->
                          IF a = "Fcoeff" THEN F ELSE obj[a]]

\* A variant of FitResult that returns, instead of raising, when y has
\* fewer than two axes or another shape than X.
FitResultSilent(obj, X, y) ==
    IF ~(Ndim(y) > 1) THEN [self |-> obj, err |-> "None"]
    ELSE IF y.shape # X.shape THEN [self |-> obj, err |-> "None"]
    ELSE IF BinRaises(obj.Nbin) THEN [self |-> obj, err |-> "IndexError"]
    ELSE LET FX == BinFft(X, obj.Nbin)
             Fy == Fftn(y, Axes(X))
             s == SpatialShape(X)
             Stored(r) == [self |-> StoreFcoeff(obj, r.F), err |-> r.err]
         IN  Stored(FitLoop(Zeros(s \o <<obj.Nbin>>), FX, Fy, NdIndex(s), 1))

\* fit(X, y) on the instance obj: the instance afterwards and the exception.
FitResult(obj, X, y) ==
    IF ~(Ndim(y) > 1) THEN [self |-> obj, err |-> "AssertionError"]
    ELSE IF y.shape # X.shape THEN [self |-> obj, err |-> "AssertionError"]
    ELSE IF BinRaises(obj.Nbin) THEN [self |-> obj, err |-> "IndexError"]
    ELSE LET FX == BinFft(X, obj.Nbin)
             Fy == Fftn(y, Axes(X))
             s == SpatialShape(X)
             Stored(r) == [self |-> StoreFcoeff(obj, r.F), err |-> r.err]
         IN  Stored(FitLoop(Zeros(s \o <<obj.Nbin>>), FX, Fy, NdIndex(s), 1))

\* ------------------------------------------------------------ predict
\* np.sum(FX * Fcoeff[None, ...], axis=-1)
Contract(FX, F) ==
    LET s == SubSeq(FX.shape, 1, Len(FX.shape) - 1)
        n == FX.shape[Len(FX.shape)]
    IN  Array(s, [ix \in NdIndexSet(s) |->
            RSum([h \in 0..(n - 1) |->
                     RMul(FX.at[ix \o <<h>>], F.at[Tail(ix) \o <<h>>])], n)])

\* The contraction with an Fcoeff whose spatial axes all have length 1,
\* broadcast over the spatial axes of FX.
ContractBroadcast(FX, F) ==
    LET s == SubSeq(FX.shape, 1, Len(FX.shape) - 1)
        n == FX.shape[Len(FX.shape)]
    IN  Array(s, [ix \in NdIndexSet(s) |->
            RSum([h \in 0..(n - 1) |->
                     RMul(FX.at[ix \o <<h>>],
                          F.at[[i \in 1..(Len(ix) - 1) |-> 0] \o <<h>>])], n)])

\* A variant of PredictResult whose check accepts every X that the stored
\* Fcoeff broadcasts against, not only an X of the same spatial shape.
PredictResultBroadcast(obj, X) ==
    IF ~HasFcoeff(obj) THEN [self |-> obj, out |-> [err |-> "AttributeError"]]
    ELSE LET fs == SubSeq(obj.Fcoeff.shape, 1, Len(obj.Fcoeff.shape) - 1)
         IN  IF SpatialShape(X) = fs
             THEN [self |-> obj,
                   out |-> [err |-> "None",
                            ret |-> IFftn(Contract(BinFft(X, obj.Nbin),
                                                   obj.Fcoeff), Axes(X))]]
             ELSE IF /\ Len(SpatialShape(X)) = Len(fs)
                     /\ \A i \in 1..Len(fs) : fs[i] = 1
             THEN [self |-> obj,
                   out |-> [err |-> "None",
                            ret |-> IFftn(ContractBroadcast(BinFft(X, obj.Nbin),
                                                            obj.Fcoeff), Axes(X))]]
             ELSE [self |-> obj, out |-> [err |-> "AssertionError"]]

\* A variant of PredictResult that asserts that the model has been fit.
PredictResultAssertFit(obj, X) ==
    IF ~HasFcoeff(obj) THEN [self |-> obj, out |-> [err |-> "AssertionError"]]
    ELSE IF SpatialShape(X) #
            SubSeq(obj.Fcoeff.shape, 1, Len(obj.Fcoeff.shape) - 1)
         THEN [self |-> obj, out |-> [err |-> "AssertionError"]]
    ELSE [self |-> obj,
          out |-> [err |-> "None",
                   ret |-> IFftn(Contract(BinFft(X, obj.Nbin), obj.Fcoeff),
                                 Axes(X))]]

\* A variant of PredictResult that keeps the transform of X on the instance.
PredictResultCaches(obj, X) ==
    IF ~HasFcoeff(obj) THEN [self |-> obj, out |-> [err |-> "AttributeError"]]
    ELSE IF SpatialShape(X) #
            SubSeq(obj.Fcoeff.shape, 1, Len(obj.Fcoeff.shape) - 1)
         THEN [self |-> obj, out |-> [err |-> "AssertionError"]]
    ELSE LET FX == BinFft(X, obj.Nbin)
         IN  [self |-> [a \in DOMAIN obj \cup {"FX"} |->
                           IF a = "FX" THEN FX ELSE obj[a]],
              out |-> [err |-> "None",
                       ret |-> IFftn(Contract(FX, obj.Fcoeff), Axes(X))]]

\* predict(X) on the instance obj: the instance afterwards (predict assigns
\* no attribute), the exception, and the value returned.
PredictResult(obj, X) ==
    IF ~HasFcoeff(obj) THEN [self |-> obj, out |-> [err |-> "AttributeError"]]
    ELSE IF SpatialShape(X) #
            SubSeq(obj.Fcoeff.shape, 1, Len(obj.Fcoeff.shape) - 1)
         THEN [self |-> obj, out |-> [err |-> "AssertionError"]]
    ELSE IF BinRaises(obj.Nbin)
         THEN [self |-> obj, out |-> [err |-> "IndexError"]]
    ELSE [self |-> obj,
          out |-> [err |-> "None",
                   ret |-> IFftn(Contract(BinFft(X, obj.Nbin), obj.Fcoeff),
                                 Axes(X))]]

\* ------------------------------------------------------------- inputs
\* The position of the index ix in the C order of the shape s.
RECURSIVE Ravel(_, _)
Ravel(s, ix) ==
    IF Len(s) = 0 THEN 0
    ELSE Ravel(SubSeq(s, 1, Len(s) - 1), SubSeq(ix, 1, Len(ix) - 1)) * s[Len(s)]
         + ix[Len(ix)]

\* np.linspace(0, 1, GridDen + 1) started at its a-th point, repeated as
\* needed and reshaped to s.
Ramp(s, a) ==
    Array(s, [ix \in NdIndexSet(s) |->
                Linspace(GridDen + 1)[(a + Ravel(s, ix)) % (GridDen + 1)]])

\* The array A with its last entry replaced by NaN.
Poison(A) ==
    Array(A.shape, [ix \in NdIndexSet(A.shape) |->
        IF \A i \in 1..Len(ix) : ix[i] = A.shape[i] - 1 THEN NaN ELSE A.at[ix]])

\* A.swapaxes(1, 2) of an array with three axes.
Swapaxes(A) ==
    LET s == <<A.shape[1], A.shape[3], A.shape[2]>>
    IN  Array(s, [ix \in NdIndexSet(s) |-> A.at[<<ix[1], ix[3], ix[2]>>]])

\* The data of the doctests of fit and predict:
\* X = np.linspace(0, 1, 4).reshape((1, 2, 2)), y = X.swapaxes(1, 2).
DocX == Array(<<1, 2, 2>>, [ix \in NdIndexSet(<<1, 2, 2>>) |->
                              Linspace(4)[Ravel(<<1, 2, 2>>, ix)]])
DocY == Swapaxes(DocX)

\* The shapes the calls of a model's life are given: no axis, one axis,
\* and a sample axis with one or two spatial axes.
Shapes == {<<>>, <<2>>, <<1, 1>>, <<1, 2>>, <<2, 2>>, <<1, 2, 2>>}

\* The arguments of fit: every pair of shapes with the ramp from 0, and
\* for a pair of equal shape with two axes or more also X with a NaN and
\* y the ramp from its second point.
FitInputs ==
    {<<Ramp(sx, 0), Ramp(sy, 0)>> : sx \in Shapes, sy \in Shapes}
    \cup UNION {{<<Ramp(s, 0), Ramp(s, 1)>>,
                 <<Poison(Ramp(s, 0)), Ramp(s, 0)>>,
                 <<Poison(Ramp(s, 0)), Ramp(s, 1)>>} :
                    s \in {sh \in Shapes : Len(sh) > 1}}

\* The arguments of predict: the ramp from 0 of every shape, and one
\* array with a NaN.
PredictInputs == {Ramp(s, 0) : s \in Shapes} \cup {Poison(Ramp(<<1, 2>>, 0))}

\* ------------------------------------------------------------ actions
\* __init__(Nbin): the instance holds Nbin and nothing else.
Init ==
    /\ \E nbin \in 1..MaxNbin : self = [Nbin |-> nbin]
    /\ call = [op |-> "__init__"]
    /\ outcome = [err |-> "None"]

Fit(X, y) ==
    \E r \in {FitResult(self, X, y)} :
        /\ self' = r.self
        /\ call' = [op |-> "fit", X |-> X, y |-> y]
        /\ outcome' = [err |-> r.err]

Predict(X) ==
    \E r \in {PredictResult(self, X)} :
        /\ self' = r.self
        /\ call' = [op |-> "predict", X |-> X]
        /\ outcome' = r.out

Next ==
    \/ \E in \in FitInputs : Fit(in[1], in[2])
    \/ \E X \in PredictInputs : Predict(X)

\* The life of a model: constructed, then any calls of fit and predict.
Spec == Init /\ [][Next]_vars

\* ----------------------------------------------- fit, then predict
\* The shapes of the data: one or two samples (the closed form of Lstsq
\* covers two rows) of one spatial axis, and the two axes of the doctests.
FitShapes == {<<1, 2>>, <<2, 1>>, <<2, 2>>, <<1, 2, 2>>}

\* The array of shape s with every entry the double nearest to 1/GridDen.
Flat(s) == Array(s, [ix \in NdIndexSet(s) |-> Float(1, GridDen)])

\* The microstructures: the ramps from the first two points of the grid, a
\* constant one, and one with a NaN; and the X of the doctests.
Microstructures ==
    UNION {{Ramp(s, 0), Ramp(s, 1), Flat(s), Poison(Ramp(s, 0))} :
              s \in FitShapes}
    \cup {DocX}

\* The responses given with X: X itself, the ramps from the first two
\* points, X with its two spatial axes swapped, and X with a NaN.
ResponsesFor(X) ==
    {X, Ramp(X.shape, 0), Ramp(X.shape, 1), Poison(X)}
    \cup (IF Ndim(X) = 3 THEN {Swapaxes(X)} ELSE {})

\* predict on the array of the last call.
PredictSame == call.op # "__init__" /\ Predict(call.X)

NextFitPredict ==
    \/ \E X \in Microstructures : \E y \in ResponsesFor(X) : Fit(X, y)
    \/ PredictSame

\* The doctests' use: a model is fit on (X, y) and predicts from that X.
SpecFitPredict == Init /\ [][NextFitPredict]_vars

\* --------------------------------------------------- _bin on its own
\* The doubles nearest to the values p/q with q <= BinGridDen from -1/q to
\* (q+1)/q: the bin points of every grid of at most BinGridDen + 1 bins (or
\* their neighbours), the values between them, and values just outside
\* [0, 1].
BinGrid == {Float(p, q) : p \in (-1)..(BinGridDen + 1), q \in 1..BinGridDen}
               \ {v \in {Float(p, q) : p \in (-1)..(BinGridDen + 1),
                                        q \in 1..BinGridDen} :
                     RLess(Float(2, 1), v)}

\* Arrays with no axis and with one axis holding one value.
BinInputs == {Array(s, [ix \in NdIndexSet(s) |-> v]) :
                 s \in {<<>>, <<1>>}, v \in BinGrid}

InitBin ==
    /\ \E nbin \in 1..MaxBins : self = [Nbin |-> nbin]
    /\ call = [op |-> "__init__"]
    /\ outcome = [err |-> "None"]

\* MKSRegressionModel(Nbin)._bin(X), as the doctests call it.
BinCall(X) ==
    /\ call' = [op |-> "_bin", X |-> X]
    /\ outcome' = IF BinRaises(self.Nbin) THEN [err |-> "IndexError"]
                  ELSE [err |-> "None", ret |-> Bin(X, self.Nbin)]
    /\ UNCHANGED self

NextBin == \E X \in BinInputs : BinCall(X)

SpecBin == InitBin /\ [][NextBin]_vars

\* ------------------------------------------------- the life of a model
\* Fcoeff.shape without its trailing bin axis.
FcoeffSpatial(obj) == SubSeq(obj.Fcoeff.shape, 1, Len(obj.Fcoeff.shape) - 1)

\* The arguments of a fit that its two assertions reject.
Rejected(c) == Ndim(c.y) < 2 \/ c.y.shape # c.X.shape

\* The outcome carries a returned value.
Returned(o) == "ret" \in DOMAIN o

\* C1: a fit that fails, at whatever point, leaves the model as it was
\* before the call: Fcoeff absent if it was absent, and otherwise of the
\* shape and values it had.
C1_FailedFitKeepsState ==
    [][(call'.op = "fit" /\ outcome'.err # "None") => self' = self]_vars

\* C2: predict on a model that holds no Fcoeff fails, and with another
\* kind of error (AttributeError) than the one it raises when the spatial
\* shape of X disagrees with a stored Fcoeff (AssertionError).
C2_NotFitIsDistinguished ==
    call.op = "predict" =>
        /\ ~HasFcoeff(self) =>
               outcome.err = "AttributeError" /\ ~Returned(outcome)
        /\ (HasFcoeff(self) /\ SpatialShape(call.X) # FcoeffSpatial(self)) =>
               outcome.err = "AssertionError"

C2_Witness ==
    call.op = "predict" /\ ~HasFcoeff(self) /\ outcome.err = "AttributeError"

\* C3: a fit whose y has another shape than X, or fewer than two axes,
\* raises the assertion error and leaves the instance as it was.
C3_FitRejectsShapes ==
    [][(call'.op = "fit" /\ Rejected(call')) =>
          (outcome'.err = "AssertionError" /\ self' = self)]_vars

C3_Witness ==
    /\ call.op = "fit" /\ Rejected(call) /\ Ndim(call.y) > 1
    /\ outcome.err = "AssertionError" /\ HasFcoeff(self)

\* C4: with an Fcoeff stored, predict raises the assertion error and
\* returns nothing when X.shape[1:] is not Fcoeff.shape[:-1], and returns a
\* value only when the two are equal.
C4_PredictChecksShape ==
    (call.op = "predict" /\ HasFcoeff(self)) =>
        /\ SpatialShape(call.X) # FcoeffSpatial(self) =>
               outcome.err = "AssertionError" /\ ~Returned(outcome)
        /\ Returned(outcome) => SpatialShape(call.X) = FcoeffSpatial(self)

C4_Witness ==
    /\ call.op = "predict" /\ HasFcoeff(self)
    /\ Len(SpatialShape(call.X)) = Len(FcoeffSpatial(self))
    /\ SpatialShape(call.X) # FcoeffSpatial(self)
    /\ outcome.err = "AssertionError"

\* C5: after a fit that succeeded, whatever came before it, Fcoeff has the
\* spatial shape of the X just fitted followed by an axis of length Nbin.
C5_FcoeffShape ==
    (call.op = "fit" /\ outcome.err = "None") =>
        /\ HasFcoeff(self)
        /\ self.Fcoeff.shape = SpatialShape(call.X) \o <<self.Nbin>>

C5_Witness ==
    /\ call.op = "fit" /\ outcome.err = "None"
    /\ call.X.shape = <<1, 2, 2>>
    /\ self.Fcoeff.shape = <<2, 2, self.Nbin>>

\* C6 as stated, for a later fit that succeeds: after a fit has succeeded,
\* a later successful fit leaves the shape of Fcoeff as it was.
C6_ShapeNeverChanges ==
    [][(/\ call.op = "fit" /\ outcome.err = "None"
        /\ call'.op = "fit" /\ outcome'.err = "None") =>
          self'.Fcoeff.shape = self.Fcoeff.shape]_vars

\* C6 as amended: with an Fcoeff stored, a fit that gets past its two
\* shape checks and its transforms stores an Fcoeff of the shape
\* X.shape[1:] + (Nbin,), so that the shape stays only when that is the
\* stored shape; a fit that raises before that, and every predict, leave
\* the stored shape.
C6_ShapeFollowsLastFit ==
    [][HasFcoeff(self) =>
          /\ HasFcoeff(self')
          /\ IF call'.op = "fit" /\ ~Rejected(call') /\ ~BinRaises(self.Nbin)
             THEN self'.Fcoeff.shape =
                      SpatialShape(call'.X) \o <<self.Nbin>>
             ELSE self'.Fcoeff.shape = self.Fcoeff.shape]_vars

C6_Witness ==
    /\ call.op = "fit" /\ Rejected(call) /\ HasFcoeff(self)
    /\ Ndim(call.X) > 1
    /\ self.Fcoeff.shape # SpatialShape(call.X) \o <<self.Nbin>>

\* C10: a predict, returning or raising, leaves Nbin and Fcoeff as they
\* were, and a fit leaves Nbin; so a predict after a predict from the same
\* X has the same outcome.
C10_FitIsSoleMutator ==
    [][/\ self'.Nbin = self.Nbin
       /\ call'.op = "predict" => self' = self
       /\ (call.op = "predict" /\ call'.op = "predict" /\ call'.X = call.X)
              => outcome' = outcome]_vars

C10_Witness ==
    call.op = "predict" /\ HasFcoeff(self) /\ Returned(outcome)

\* -------------------------------------------------------------- _bin
\* 0 <= v <= 1
InUnit(v) == ~IsNaN(v) /\ ~RLess(v, Zero) /\ ~RLess(One, v)

\* The value that the arithmetic of the reals gives where the doubles give
\* a: c for a value of order 0, and 0 for one of the order of a rounding.
Exact(a) == IF a[1] = 0 THEN a[2] ELSE <<0, 1>>

\* a and b agree within tolerance: they differ by roundings only.
Close(a, b) ==
    /\ ~IsNaN(a) /\ ~IsNaN(b)
    /\ LET d == RSub(a, b) IN d = Zero \/ d[1] >= 1

\* C7: for Nbin >= 2 and a value v in [0, 1], the memberships m that _bin
\* gives v over the points H = linspace(0, 1, Nbin) satisfy
\* sum over h of m[h] * H[h] = v: exactly, with H[h] = h / (Nbin - 1), in the
\* values that the arithmetic of the reals gives, and within roundings in
\* the doubles.
C7_BinReconstructs ==
    (call.op = "_bin" /\ self.Nbin >= 2) =>
        /\ Returned(outcome)
        /\ outcome.ret.shape = call.X.shape \o <<self.Nbin>>
        /\ \A ix \in NdIndexSet(call.X.shape) :
              InUnit(call.X.at[ix]) =>
                  /\ QSum([h \in 1..self.Nbin |->
                              QMul(Exact(outcome.ret.at[ix \o <<h - 1>>]),
                                   Rat(h - 1, self.Nbin - 1))], self.Nbin)
                     = Exact(call.X.at[ix])
                  /\ Close(RSum([h \in 0..(self.Nbin - 1) |->
                                    RMul(outcome.ret.at[ix \o <<h>>],
                                         Linspace(self.Nbin)[h])], self.Nbin),
                           call.X.at[ix])

\* A value strictly between two bin points of a grid of three bins or more.
C7_Witness ==
    /\ call.op = "_bin" /\ self.Nbin >= 3 /\ Returned(outcome)
    /\ \E ix \in NdIndexSet(call.X.shape) :
          /\ InUnit(call.X.at[ix])
          /\ \A h \in 0..(self.Nbin - 1) :
                Exact(call.X.at[ix]) # Rat(h, self.Nbin - 1)
          /\ \E h \in 0..(self.Nbin - 1) :
                outcome.ret.at[ix \o <<h>>] = Zero

\* ------------------------------------------------ fit, then predict
\* The permutations of a sequence.
Perms(seq) ==
    {[p \in 1..Len(seq) |-> seq[f[p]]] :
        f \in {g \in [1..Len(seq) -> 1..Len(seq)] :
                  \A i, j \in 1..Len(seq) : g[i] = g[j] => i = j}}

\* Two arrays of one shape whose entries agree within tolerance.
AllClose(A, B) ==
    /\ A.shape = B.shape
    /\ \A ix \in NdIndexSet(A.shape) : Close(A.at[ix], B.at[ix])

\* The rank of a matrix of rationals M with m <= 2 rows and n columns.
QRank(M, m, n) ==
    IF \A s \in 0..(m - 1) : \A h \in 0..(n - 1) : M[s][h][1] = 0 THEN 0
    ELSE IF /\ m = 2
            /\ \E h, g \in 0..(n - 1) :
                  QMul(M[0][h], M[1][g]) # QMul(M[0][g], M[1][h])
    THEN 2
    ELSE 1

\* Every system FX[:, ijk, :] . c = Fy[:, ijk] of the data (X, y) has an
\* exact solution: in the values that the arithmetic of the reals gives,
\* the matrix has the rank of the matrix with the right-hand side added as
\* a column.
Solvable(X, y, nbin) ==
    LET FX == BinFft(X, nbin)
        Fy == Fftn(y, Axes(X))
        m == X.shape[1]
    IN  \A ijk \in NdIndexSet(SpatialShape(X)) :
            QRank([s \in 0..(m - 1) |-> [h \in 0..(nbin - 1) |->
                      Exact(FX.at[<<s>> \o ijk \o <<h>>])]], m, nbin)
            = QRank([s \in 0..(m - 1) |-> [h \in 0..nbin |->
                        IF h = nbin THEN Exact(Fy.at[<<s>> \o ijk])
                        ELSE Exact(FX.at[<<s>> \o ijk \o <<h>>])]],
                    m, nbin + 1)

\* C8: when the fit on (X, y) succeeded and every per-frequency system of
\* (X, y) has an exact solution, predict(X) returns y within tolerance, of
\* the shape of X; and the doctest's data, with two bins, are such a case.
C8_PredictRecoversResponse ==
    [][/\ (/\ call.op = "fit" /\ outcome.err = "None"
           /\ Solvable(call.X, call.y, self.Nbin)
           /\ call'.op = "predict" /\ call'.X = call.X)
          => (/\ Returned(outcome')
              /\ AllClose(outcome'.ret, call.y)
              /\ outcome'.ret.shape = call.X.shape)
       /\ (/\ self.Nbin = 2 /\ call.op = "fit"
           /\ call.X = DocX /\ call.y = DocY)
          => (outcome.err = "None" /\ Solvable(DocX, DocY, 2))]_vars

\* The doctest of predict, after the doctest of fit: Fcoeff is
\* [[[0.5, 0.5], [-1, 1]], [[-0.25, 0.25], [-0.5, 0.5]]], the row of the
\* frequency (1, 1) solving a system that holds rounding errors only.
C8_Witness ==
    /\ call.op = "predict" /\ call.X = DocX /\ self.Nbin = 2
    /\ self.Fcoeff.shape = <<2, 2, 2>>
    /\ self.Fcoeff.at[<<0, 0, 0>>] = Float(1, 2)
    /\ self.Fcoeff.at[<<0, 0, 1>>] = Float(1, 2)
    /\ self.Fcoeff.at[<<0, 1, 0>>] = Float(-1, 1)
    /\ self.Fcoeff.at[<<0, 1, 1>>] = Float(1, 1)
    /\ self.Fcoeff.at[<<1, 0, 0>>] = Float(-1, 4)
    /\ self.Fcoeff.at[<<1, 0, 1>>] = Float(1, 4)
    /\ self.Fcoeff.at[<<1, 1, 0>>] = Float(-1, 2)
    /\ self.Fcoeff.at[<<1, 1, 1>>] = Float(1, 2)
    /\ Returned(outcome) /\ AllClose(outcome.ret, DocY)

\* C9: in a fit that succeeded, the loop visits every coordinate of the
\* Cartesian product of the spatial sizes exactly once, Fcoeff[ijk, :] is
\* the solution of the system of the slices of ijk alone, the step of a
\* coordinate leaves the rows of every other coordinate as they were, and
\* the loop run over the coordinates in any other order gives the same
\* Fcoeff.
C9_EachCoordinateOnce ==
    (call.op = "fit" /\ outcome.err = "None") =>
        LET s == SpatialShape(call.X)
            order == NdIndex(s)
            FX == BinFft(call.X, self.Nbin)
            Fy == Fftn(call.y, Axes(call.X))
            m == call.X.shape[1]
        IN  /\ Len(order) = Cardinality(NdIndexSet(s))
            /\ {order[p] : p \in 1..Len(order)} = NdIndexSet(s)
            /\ \A ijk \in NdIndexSet(s) : \A h \in 0..(self.Nbin - 1) :
                  self.Fcoeff.at[ijk \o <<h>>] =
                      Lstsq(SliceFX(FX, ijk), SliceFy(Fy, ijk), m, self.Nbin)[h]
            /\ \A p \in 1..Len(order) :
                  \A ix \in NdIndexSet(s \o <<self.Nbin>>) :
                     SubSeq(ix, 1, Len(s)) # order[p] =>
                        FitLoop(Zeros(s \o <<self.Nbin>>), FX, Fy,
                                SubSeq(order, 1, p), 1).F.at[ix]
                        = FitLoop(Zeros(s \o <<self.Nbin>>), FX, Fy,
                                  SubSeq(order, 1, p - 1), 1).F.at[ix]
            /\ \A perm \in Perms(order) :
                  FitLoop(Zeros(s \o <<self.Nbin>>), FX, Fy, perm, 1).F
                  = self.Fcoeff

\* A fit over four coordinates whose solutions differ from one another.
C9_Witness ==
    /\ call.op = "fit" /\ outcome.err = "None"
    /\ SpatialShape(call.X) = <<2, 2>>
    /\ \E h \in 0..(self.Nbin - 1) :
          /\ self.Fcoeff.at[<<0, 0, h>>] # self.Fcoeff.at[<<0, 1, h>>]
          /\ self.Fcoeff.at[<<0, 1, h>>] # self.Fcoeff.at[<<1, 0, h>>]
          /\ self.Fcoeff.at[<<1, 0, h>>] # self.Fcoeff.at[<<0, 0, h>>]

====
